---- MODULE Spec2Model ----
(***************************************************************************)
(* Model of the world map decoder of src/src/main.rs.                      *)
(*                                                                         *)
(* A parser takes the input buffer and the offset at which the remaining   *)
(* slice starts (the Rust code passes the slice itself) and returns an     *)
(* IResult: on success the offset of the remaining slice and the value, on *)
(* failure the offset of the slice the failing primitive was given.  Each  *)
(* result also carries the log of the primitive reads (le_u32, take) that  *)
(* were made to produce it, abandoned ones included.                       *)
(*                                                                         *)
(* The parsers are operators.  The decode of one buffer is also a state    *)
(* machine: one step per line of world_map, and, inside a many_m_n line,   *)
(* one step per round of its loop.                                         *)
(***************************************************************************)
EXTENDS Integers, Sequences, FiniteSets, TLC

VARIABLES buf, src, pc, input, file, res, sub, result, reads

vars == <<buf, src, pc, input, file, res, sub, result, reads>>

\* ------------------------------------------------------------------------
\* Bounds of the model.
MaxList == 1
MaxStr == 2

\* ------------------------------------------------------------------------
\* IResult

Ok(rest, val, log) == [ok |-> TRUE, input |-> rest, val |-> val, reads |-> log]

Err(at, log) == [ok |-> FALSE, input |-> at, val |-> <<>>, reads |-> log]

Rd(at, need, ok) == [at |-> at, need |-> need, ok |-> ok]

\* `let x = e; ...`: e is evaluated once, and k continues with its value.
Let(e, k(_)) == CHOOSE v \in {k(x) : x \in {e}} : TRUE

\* ------------------------------------------------------------------------
\* nom primitives as the program uses them (complete variants).

\* le_u32 reading the four bytes most significant first.
le_u32_be(b, i) ==
  IF Len(b) - i < 4
    THEN Err(i, <<Rd(i, 4, FALSE)>>)
    ELSE Ok(i + 4,
            16777216 * b[i + 1] + 65536 * b[i + 2] + 256 * b[i + 3] + b[i + 4],
            <<Rd(i, 4, TRUE)>>)

\* le_u32 without the check of the remaining length: bytes past the end of
\* the buffer read as 0.
le_u32_unchecked(b, i) ==
  Ok(i + 4,
     (IF i + 1 <= Len(b) THEN b[i + 1] ELSE 0)
       + 256 * (IF i + 2 <= Len(b) THEN b[i + 2] ELSE 0)
       + 65536 * (IF i + 3 <= Len(b) THEN b[i + 3] ELSE 0)
       + 16777216 * (IF i + 4 <= Len(b) THEN b[i + 4] ELSE 0),
     <<Rd(i, 4, TRUE)>>)

le_u32(b, i) ==
  IF Len(b) - i < 4
    THEN Err(i, <<Rd(i, 4, FALSE)>>)
    ELSE Ok(i + 4,
            b[i + 1] + 256 * b[i + 2] + 65536 * b[i + 3] + 16777216 * b[i + 4],
            <<Rd(i, 4, TRUE)>>)

take(n, b, i) ==
  IF Len(b) - i < n
    THEN Err(i, <<Rd(i, n, FALSE)>>)
    ELSE Ok(i + n, SubSeq(b, i + 1, i + n), <<Rd(i, n, TRUE)>>)

\* ------------------------------------------------------------------------
\* std_string

\* Ok((input, StdString { length, data }))
StdString(l, d) ==
  IF ~d.ok THEN Err(d.input, l.reads \o d.reads)
  ELSE Ok(d.input, [length |-> l.val, data |-> d.val], l.reads \o d.reads)

\* std_string taking the payload whenever the length is not 0.
std_string_data_nonzero(b, l) ==
  IF ~l.ok THEN l
  ELSE Let(IF l.val > 0 THEN take(l.val, b, l.input) ELSE take(0, b, l.input),
           LAMBDA d : StdString(l, d))

\* if length > 1 { take(length) } else { take(0usize) }
std_string_data(b, l) ==
  IF ~l.ok THEN l
  ELSE Let(IF l.val > 1 THEN take(l.val, b, l.input) ELSE take(0, b, l.input),
           LAMBDA d : StdString(l, d))

std_string(b, i) == Let(le_u32(b, i), LAMBDA l : std_string_data(b, l))

\* A run of `let (input, x) = p(input)?;` lines, p being le_u32 or std_string:
\* the values in order, or the first error.
RECURSIVE chain(_, _, _, _, _)
chain_bind(kinds, b, vals, log, r) ==
  IF ~r.ok THEN Err(r.input, log \o r.reads)
  ELSE chain(Tail(kinds), b, r.input, Append(vals, r.val), log \o r.reads)

chain(kinds, b, i, vals, log) ==
  IF kinds = <<>> THEN Ok(i, vals, log)
  ELSE Let(IF Head(kinds) = "le_u32" THEN le_u32(b, i) ELSE std_string(b, i),
           LAMBDA r : chain_bind(kinds, b, vals, log, r))

Rep(n, x) == [k \in 1..n |-> x]

\* ------------------------------------------------------------------------
\* world_chip

WorldChip(r) ==
  IF ~r.ok THEN r
  ELSE Ok(r.input,
          [header |-> r.val[1], tile_index |-> r.val[2], locked |-> r.val[3],
           graphic |-> r.val[4], strings_count |-> r.val[5],
           name |-> r.val[6], unused_string |-> r.val[7]],
          r.reads)

world_chip(b, i) ==
  Let(chain(Rep(5, "le_u32") \o Rep(2, "std_string"), b, i, <<>>, <<>>), WorldChip)

\* ------------------------------------------------------------------------
\* world_event_page

WorldEventPage(r) ==
  IF ~r.ok THEN r
  ELSE Ok(r.input,
          [start |-> r.val[1], event_type |-> r.val[2], graphic |-> r.val[3],
           world_number |-> r.val[4], pass_without_clear |-> r.val[5],
           play_after_clear |-> r.val[6], on_game_clear |-> r.val[7],
           appearance_condition_world |-> r.val[8],
           appearance_condition_variable |-> r.val[9],
           appearance_condition_constant |-> r.val[10],
           appearance_condition_comparison_content |-> r.val[11],
           appearance_condition_total_score |-> r.val[12],
           variation_setting_present |-> r.val[13],
           variation_variable |-> r.val[14],
           variation_constant |-> r.val[15],
           strings_count |-> r.val[16],
           world_name |-> r.val[17], start_stage |-> r.val[18]],
          r.reads)

world_event_page(b, i) ==
  Let(chain(Rep(16, "le_u32") \o Rep(2, "std_string"), b, i, <<>>, <<>>),
      WorldEventPage)

\* ------------------------------------------------------------------------
\* nom::multi::many_m_n(min, max, parser) as called by the program: the
\* elements parsed before the first recoverable error, at most max of them.
\* The element parser is named by the function the program passes.

\* What one round of the loop does with the element parser's result r, the
\* round having started at offset i with count elements: push the element
\* and go on from input, return the elements with the remaining input at
\* input, or return an error at input.
Push(at) == [next |-> "push", input |-> at]

Done(at) == [next |-> "done", input |-> at]

Fail(at) == [next |-> "err", input |-> at]

\* The loop leaving the input where the failing element stopped.
many_m_n_round_no_rewind(count, min, i, r) ==
  IF r.ok THEN Push(r.input) ELSE Done(r.input)

many_m_n_round(count, min, i, r) ==
  IF r.ok
    THEN IF r.input = i THEN Fail(i) ELSE Push(r.input)
    ELSE IF count < min THEN Fail(r.input) ELSE Done(i)

\* world_event_base up to pages_count: the first six lines.
world_event_head(b, i) ==
  chain(Rep(4, "le_u32") \o <<"std_string", "le_u32">>, b, i, <<>>, <<>>)

\* WorldEventBase { header, placement_x, placement_y, strings_count, name,
\* pages_count, pages }
WorldEventBase(head, pages) ==
  [header |-> head[1], placement_x |-> head[2], placement_y |-> head[3],
   strings_count |-> head[4], name |-> head[5], pages_count |-> head[6],
   pages |-> pages]

RECURSIVE many_m_n_from(_, _, _, _, _, _, _, _)
RECURSIVE world_event_base(_, _)

element(parser, b, i) ==
  CASE parser = "world_chip" -> world_chip(b, i)
    [] parser = "le_u32" -> le_u32(b, i)
    [] parser = "world_event_page" -> world_event_page(b, i)
    [] parser = "world_event_base" -> world_event_base(b, i)

many_m_n_next(count, min, max, parser, b, res0, log, r, d) ==
  CASE d.next = "push" ->
         many_m_n_from(count + 1, min, max, parser, b, d.input,
                       Append(res0, r.val), log \o r.reads)
    [] d.next = "done" -> Ok(d.input, res0, log \o r.reads)
    [] d.next = "err" -> Err(d.input, log \o r.reads)

many_m_n_step(count, min, max, parser, b, i, res0, log, r) ==
  many_m_n_next(count, min, max, parser, b, res0, log, r,
                many_m_n_round(count, min, i, r))

many_m_n_from(count, min, max, parser, b, i, res0, log) ==
  IF count >= max THEN Ok(i, res0, log)
  ELSE many_m_n_step(count, min, max, parser, b, i, res0, log,
                     element(parser, b, i))

many_m_n(min, max, parser, b, i) ==
  IF min > max THEN Err(i, <<>>)
  ELSE many_m_n_from(0, min, max, parser, b, i, <<>>, <<>>)

\* ------------------------------------------------------------------------
\* world_event_base

world_event_base_pages(r, p) ==
  IF ~p.ok THEN Err(p.input, r.reads \o p.reads)
  ELSE Ok(p.input, WorldEventBase(r.val, p.val), r.reads \o p.reads)

world_event_base_head(b, r) ==
  IF ~r.ok THEN r
  ELSE world_event_base_pages(
         r, many_m_n(0, r.val[6], "world_event_page", b, r.input))

world_event_base(b, i) == world_event_base_head(b, world_event_head(b, i))

\* ------------------------------------------------------------------------
\* world_map: the `let (input, x) = p(input)?;` lines of the function in
\* order; for a many_m_n line, of names the element parser and bound the
\* field the maximum is taken from.

U32Line(f) == [field |-> f, parser |-> "le_u32", of |-> "", bound |-> ""]

StrLine(f) == [field |-> f, parser |-> "std_string", of |-> "", bound |-> ""]

ManyLine(f, p, n) == [field |-> f, parser |-> "many_m_n", of |-> p, bound |-> n]

\* The event list bounded by the count read just before it.
event_data_line_events_count ==
  ManyLine("event_data", "world_event_base", "events_count")

event_data_line == ManyLine("event_data", "world_event_base", "tiles_count")

event_template_data_line ==
  ManyLine("event_template_data", "world_event_base", "tiles_count")

world_chip_data_line ==
  ManyLine("world_chip_data", "world_chip", "tiles_types_count")

map_chip_data_line == ManyLine("map_chip_data", "le_u32", "tiles_count")

world_map_lines ==
  << U32Line("version"), U32Line("settings_count"),
     U32Line("horizontal_width"), U32Line("vertical_width"),
     U32Line("chunk_width"), U32Line("chunk_pow"),
     U32Line("initial_position_x"), U32Line("initial_position_y"),
     U32Line("background_index"), U32Line("use_background"),
     U32Line("strings_count"),
     StrLine("name"), StrLine("bg_path"),
     U32Line("tiles_types_count"), world_chip_data_line,
     U32Line("tiles_count"), map_chip_data_line,
     U32Line("events_count"), event_data_line,
     U32Line("events_pal_count"), event_template_data_line >>

NLines == Len(world_map_lines)

StdStringDefault == [length |-> 0, data |-> <<>>]

\* The fields of WorldMapFile before any line has bound them.
WorldMapFileDefault ==
  [version |-> 0, settings_count |-> 0, horizontal_width |-> 0,
   vertical_width |-> 0, chunk_width |-> 0, chunk_pow |-> 0,
   initial_position_x |-> 0, initial_position_y |-> 0,
   background_index |-> 0, use_background |-> 0, strings_count |-> 0,
   name |-> StdStringDefault, bg_path |-> StdStringDefault,
   tiles_types_count |-> 0, world_chip_data |-> <<>>,
   tiles_count |-> 0, map_chip_data |-> <<>>,
   events_count |-> 0, event_data |-> <<>>,
   events_pal_count |-> 0, event_template_data |-> <<>>]

\* The parser call of one line, given the fields bound so far.
world_map_line(ln, b, i, f) ==
  CASE ln.parser = "le_u32" -> le_u32(b, i)
    [] ln.parser = "std_string" -> std_string(b, i)
    [] ln.parser = "many_m_n" -> many_m_n(0, f[ln.bound], ln.of, b, i)

RECURSIVE world_map_from(_, _, _, _, _)
world_map_bind(n, b, f, log, r) ==
  IF ~r.ok THEN Err(r.input, log \o r.reads)
  ELSE world_map_from(n + 1, b, r.input,
                      [f EXCEPT ![world_map_lines[n].field] = r.val],
                      log \o r.reads)

world_map_from(n, b, i, f, log) ==
  IF n > NLines THEN Ok(i, f, log)
  ELSE world_map_bind(n, b, f, log, world_map_line(world_map_lines[n], b, i, f))

world_map(b) == world_map_from(1, b, 0, WorldMapFileDefault, <<>>)

\* ------------------------------------------------------------------------
\* The file layout: the bytes of a value, field after field in declared
\* order, every list written with the elements it actually holds.

EncU32(v) ==
  << v % 256, (v \div 256) % 256, (v \div 65536) % 256, (v \div 16777216) % 256 >>

EncString(s) == EncU32(s.length) \o s.data

RECURSIVE Flat(_)
Flat(ss) == IF ss = <<>> THEN <<>> ELSE Head(ss) \o Flat(Tail(ss))

EncChip(c) ==
  EncU32(c.header) \o EncU32(c.tile_index) \o EncU32(c.locked)
    \o EncU32(c.graphic) \o EncU32(c.strings_count)
    \o EncString(c.name) \o EncString(c.unused_string)

EncPage(p) ==
  EncU32(p.start) \o EncU32(p.event_type) \o EncU32(p.graphic)
    \o EncU32(p.world_number) \o EncU32(p.pass_without_clear)
    \o EncU32(p.play_after_clear) \o EncU32(p.on_game_clear)
    \o EncU32(p.appearance_condition_world)
    \o EncU32(p.appearance_condition_variable)
    \o EncU32(p.appearance_condition_constant)
    \o EncU32(p.appearance_condition_comparison_content)
    \o EncU32(p.appearance_condition_total_score)
    \o EncU32(p.variation_setting_present)
    \o EncU32(p.variation_variable) \o EncU32(p.variation_constant)
    \o EncU32(p.strings_count)
    \o EncString(p.world_name) \o EncString(p.start_stage)

EncEvent(e) ==
  EncU32(e.header) \o EncU32(e.placement_x) \o EncU32(e.placement_y)
    \o EncU32(e.strings_count) \o EncString(e.name) \o EncU32(e.pages_count)
    \o Flat([k \in 1..Len(e.pages) |-> EncPage(e.pages[k])])

EncWorldMap(w) ==
  EncU32(w.version) \o EncU32(w.settings_count)
    \o EncU32(w.horizontal_width) \o EncU32(w.vertical_width)
    \o EncU32(w.chunk_width) \o EncU32(w.chunk_pow)
    \o EncU32(w.initial_position_x) \o EncU32(w.initial_position_y)
    \o EncU32(w.background_index) \o EncU32(w.use_background)
    \o EncU32(w.strings_count)
    \o EncString(w.name) \o EncString(w.bg_path)
    \o EncU32(w.tiles_types_count)
    \o Flat([k \in 1..Len(w.world_chip_data) |-> EncChip(w.world_chip_data[k])])
    \o EncU32(w.tiles_count)
    \o Flat([k \in 1..Len(w.map_chip_data) |-> EncU32(w.map_chip_data[k])])
    \o EncU32(w.events_count)
    \o Flat([k \in 1..Len(w.event_data) |-> EncEvent(w.event_data[k])])
    \o EncU32(w.events_pal_count)
    \o Flat([k \in 1..Len(w.event_template_data) |->
               EncEvent(w.event_template_data[k])])

\* The list lengths and string payloads of a value match the file layout.
StringConsistent(s) ==
  Len(s.data) = IF s.length > 1 THEN s.length ELSE 0

PageConsistent(p) == StringConsistent(p.world_name) /\ StringConsistent(p.start_stage)

EventConsistent(e) ==
  /\ StringConsistent(e.name)
  /\ Len(e.pages) = e.pages_count
  /\ \A k \in 1..Len(e.pages) : PageConsistent(e.pages[k])

LayoutConsistent(w) ==
  /\ StringConsistent(w.name) /\ StringConsistent(w.bg_path)
  /\ Len(w.world_chip_data) = w.tiles_types_count
  /\ \A k \in 1..Len(w.world_chip_data) :
       /\ StringConsistent(w.world_chip_data[k].name)
       /\ StringConsistent(w.world_chip_data[k].unused_string)
  /\ Len(w.map_chip_data) = w.tiles_count
  /\ Len(w.event_data) = w.tiles_count
  /\ Len(w.event_template_data) = w.tiles_count
  /\ \A k \in 1..Len(w.event_data) : EventConsistent(w.event_data[k])
  /\ \A k \in 1..Len(w.event_template_data) :
       EventConsistent(w.event_template_data[k])

\* ------------------------------------------------------------------------
\* The input buffers of the model: the bytes of a world map value, whole,
\* or cut to any length (those with sl = 0 and both event counts 0), or with one
\* declared count replaced by a value larger than the list that follows, or
\* followed by bytes the layout does not account for.

LargeCount == 258

EventCounts == {0, LargeCount}

Kinds == {"whole", "tiles_types_count", "tiles_count", "pages_count", "trailing"}

Trailing == <<7, 1, 0>>

MkString(l) == [length |-> l, data |-> IF l > 1 THEN [k \in 1..l |-> 64 + k] ELSE <<>>]

\* The j-th string of a buffer whose first string has length sl.
StrAt(sl, j) == MkString((sl + j) % (MaxStr + 1))

MkChip(k, sl) ==
  [header |-> k - 1, tile_index |-> k, locked |-> 2, graphic |-> 3,
   strings_count |-> 2, name |-> StrAt(sl, 2 * k), unused_string |-> StrAt(sl, 2 * k + 1)]

MkPage(k, sl) ==
  [start |-> k - 1, event_type |-> 1, graphic |-> 2, world_number |-> 3,
   pass_without_clear |-> 4, play_after_clear |-> 5, on_game_clear |-> 6,
   appearance_condition_world |-> 1, appearance_condition_variable |-> 8,
   appearance_condition_constant |-> 9,
   appearance_condition_comparison_content |-> 10,
   appearance_condition_total_score |-> 11,
   variation_setting_present |-> 12, variation_variable |-> 13,
   variation_constant |-> 14, strings_count |-> 2,
   world_name |-> StrAt(sl, 2 * k), start_stage |-> StrAt(sl, 2 * k + 1)]

MkEvent(k, np, pc0, sl) ==
  [header |-> k - 1, placement_x |-> k, placement_y |-> 2, strings_count |-> 1,
   name |-> StrAt(sl, k), pages_count |-> pc0,
   pages |-> [j \in 1..np |-> MkPage(j, sl)]]

MkWorldMap(nc, nt, np, sl, ec, epc, kind) ==
  [version |-> 1, settings_count |-> 0, horizontal_width |-> 10,
   vertical_width |-> 10, chunk_width |-> 8, chunk_pow |-> 3,
   initial_position_x |-> 0, initial_position_y |-> 0,
   background_index |-> 0, use_background |-> 0, strings_count |-> 2,
   name |-> StrAt(sl, 0), bg_path |-> StrAt(sl, 1),
   tiles_types_count |-> IF kind = "tiles_types_count" THEN LargeCount ELSE nc,
   world_chip_data |-> [k \in 1..nc |-> MkChip(k, sl)],
   tiles_count |-> IF kind = "tiles_count" THEN LargeCount ELSE nt,
   map_chip_data |-> [k \in 1..nt |-> k - 1],
   events_count |-> ec,
   event_data |->
     [k \in 1..nt |->
        MkEvent(k, np, IF kind = "pages_count" THEN LargeCount ELSE np, sl)],
   events_pal_count |-> epc,
   event_template_data |->
     [k \in 1..nt |->
        MkEvent(k, np, IF kind = "pages_count" THEN LargeCount ELSE np, sl)]]

\* ------------------------------------------------------------------------
\* The decode of one buffer: a step per line of world_map and per round of
\* a many_m_n loop.  res holds the elements the running loop has pushed;
\* sub is the world_event_base call in progress inside it, if any.

Running == [status |-> "running", at |-> 0]

NoCall == [open |-> FALSE, at |-> 0, head |-> <<>>, pages |-> <<>>]

Init ==
  \E nc \in 0..MaxList, nt \in 0..MaxList, np \in 0..MaxList, sl \in 0..MaxStr,
     ec \in EventCounts, epc \in EventCounts, kind \in Kinds :
    LET w == MkWorldMap(nc, nt, np, sl, ec, epc, kind)
        full == EncWorldMap(w)
    IN \E cut \in (IF kind = "whole" /\ sl = 0 /\ ec = 0 /\ epc = 0
                      THEN 0..Len(full) ELSE {Len(full)}) :
         /\ src = [wm |-> w, kind |-> kind, cut |-> cut, full |-> Len(full)]
         /\ buf = SubSeq(full, 1, cut) \o (IF kind = "trailing" THEN Trailing ELSE <<>>)
         /\ pc = 1
         /\ input = 0
         /\ file = WorldMapFileDefault
         /\ res = <<>>
         /\ sub = NoCall
         /\ result = Running
         /\ reads = <<>>

Active == result.status = "running" /\ pc \in 1..NLines

LineIs(parser, of) ==
  /\ Active
  /\ world_map_lines[pc].parser = parser
  /\ world_map_lines[pc].of = of

\* `let (input, x) = p(input)?;`: bind the field and move on, or return the
\* error.
Bind(field, r) ==
  /\ reads' = reads \o r.reads
  /\ IF r.ok
       THEN /\ pc' = pc + 1
            /\ input' = r.input
            /\ file' = [file EXCEPT ![field] = r.val]
            /\ UNCHANGED result
       ELSE /\ result' = [status |-> "Err", at |-> r.input]
            /\ UNCHANGED <<pc, input, file>>
  /\ UNCHANGED <<buf, src, res, sub>>

ReadU32 ==
  /\ LineIs("le_u32", "")
  /\ \E r \in {le_u32(buf, input)} : Bind(world_map_lines[pc].field, r)

ReadString ==
  /\ LineIs("std_string", "")
  /\ \E r \in {std_string(buf, input)} : Bind(world_map_lines[pc].field, r)

\* The many_m_n of the line returns: its `?` binds the field or returns the
\* error.
ManyReturns(ok, at, log) ==
  /\ reads' = reads \o log
  /\ IF ok
       THEN /\ pc' = pc + 1
            /\ input' = at
            /\ file' = [file EXCEPT ![world_map_lines[pc].field] = res]
            /\ UNCHANGED result
       ELSE /\ result' = [status |-> "Err", at |-> at]
            /\ UNCHANGED <<pc, input, file>>
  /\ res' = <<>>
  /\ sub' = NoCall
  /\ UNCHANGED <<buf, src>>

\* A round of the line's loop ends with the element parser's result r.
Round(r, d) ==
  IF d.next = "push"
    THEN /\ res' = Append(res, r.val)
         /\ input' = d.input
         /\ reads' = reads \o r.reads
         /\ sub' = NoCall
         /\ UNCHANGED <<buf, src, pc, file, result>>
    ELSE ManyReturns(d.next = "done", d.input, r.reads)

MoreRounds == Len(res) < file[world_map_lines[pc].bound]

\* for count in 0..max, over: Ok((input, res))
ListFull ==
  /\ Active
  /\ world_map_lines[pc].parser = "many_m_n"
  /\ ~sub.open
  /\ ~MoreRounds
  /\ ManyReturns(TRUE, input, <<>>)

ChipRound ==
  /\ LineIs("many_m_n", "world_chip")
  /\ MoreRounds
  /\ \E r \in {world_chip(buf, input)} :
       Round(r, many_m_n_round(Len(res), 0, input, r))

TileRound ==
  /\ LineIs("many_m_n", "le_u32")
  /\ MoreRounds
  /\ \E r \in {le_u32(buf, input)} :
       Round(r, many_m_n_round(Len(res), 0, input, r))

\* world_event_base is entered: its lines up to pages_count.
Enter(r) ==
  IF r.ok
    THEN /\ sub' = [open |-> TRUE, at |-> input, head |-> r.val, pages |-> <<>>]
         /\ input' = r.input
         /\ reads' = reads \o r.reads
         /\ UNCHANGED <<buf, src, pc, file, res, result>>
    ELSE Round(r, many_m_n_round(Len(res), 0, input, r))

EventHead ==
  /\ LineIs("many_m_n", "world_event_base")
  /\ ~sub.open
  /\ MoreRounds
  /\ \E r \in {world_event_head(buf, input)} : Enter(r)

\* world_event_base returns r to the round of the line's loop that called
\* it at offset sub.at.
EventReturns(r) == Round(r, many_m_n_round(Len(res), 0, sub.at, r))

\* The many_m_n over the pages returns, and world_event_base with it.
PagesReturn(ok, at, log) ==
  EventReturns(IF ok THEN Ok(at, WorldEventBase(sub.head, sub.pages), log)
                     ELSE Err(at, log))

PageEnds(r, d) ==
  IF d.next = "push"
    THEN /\ sub' = [sub EXCEPT !.pages = Append(@, r.val)]
         /\ input' = d.input
         /\ reads' = reads \o r.reads
         /\ UNCHANGED <<buf, src, pc, file, res, result>>
    ELSE PagesReturn(d.next = "done", d.input, r.reads)

MorePages == Len(sub.pages) < sub.head[6]

PageRound ==
  /\ LineIs("many_m_n", "world_event_base")
  /\ sub.open
  /\ MorePages
  /\ \E r \in {world_event_page(buf, input)} :
       PageEnds(r, many_m_n_round(Len(sub.pages), 0, input, r))

PagesFull ==
  /\ LineIs("many_m_n", "world_event_base")
  /\ sub.open
  /\ ~MorePages
  /\ PagesReturn(TRUE, input, <<>>)

\* Ok((input, world_map_file))
Return ==
  /\ result.status = "running"
  /\ pc = NLines + 1
  /\ result' = [status |-> "Ok", at |-> input]
  /\ UNCHANGED <<buf, src, pc, input, file, res, sub, reads>>

Next ==
  \/ ReadU32
  \/ ReadString
  \/ ChipRound
  \/ TileRound
  \/ EventHead
  \/ PageRound
  \/ PagesFull
  \/ ListFull
  \/ Return

Spec == Init /\ [][Next]_vars

FairSpec == Spec /\ WF_vars(Next)

\* The stepwise decode and world_map agree.
Agrees(r) ==
  /\ r.ok = (result.status = "Ok")
  /\ r.input = result.at
  /\ r.reads = reads
  /\ r.ok => r.val = file

StepwiseAgrees == result.status # "running" => Agrees(world_map(buf))

\* ------------------------------------------------------------------------
\* std_string on its own: any short buffer, read from any offset.

MaxBuf == 6

StrBytes == {0, 1, 2}

InitStr ==
  \E n \in 0..MaxBuf :
    \E b \in [1..n -> StrBytes], i \in 0..n :
      /\ buf = b
      /\ input = i
      /\ pc = "call"
      /\ src = "std_string"
      /\ file = StdStringDefault
      /\ res = <<>>
      /\ sub = NoCall
      /\ result = Running
      /\ reads = <<>>

Returned(r) ==
  /\ pc' = "ret"
  /\ result' = [status |-> IF r.ok THEN "Ok" ELSE "Err", at |-> r.input]
  /\ file' = IF r.ok THEN r.val ELSE file
  /\ reads' = r.reads
  /\ UNCHANGED <<buf, src, input, res, sub>>

CallStdString == pc = "call" /\ \E r \in {std_string(buf, input)} : Returned(r)

NextStr == CallStdString

SpecStr == InitStr /\ [][NextStr]_vars

\* ------------------------------------------------------------------------
\* Properties.

\* The little-endian value of the four bytes at offset i.
U32At(b, i) ==
  b[i + 1] + 256 * (b[i + 2] + 256 * (b[i + 3] + 256 * b[i + 4]))

Finished == result.status # "running"

Succeeded == result.status = "Ok"

\* The buffer is the whole serialisation of a layout-consistent value.
WholeFile == LayoutConsistent(src.wm) /\ buf = EncWorldMap(src.wm)

\* C1: when std_string succeeds, the returned length is the little-endian
\* u32 at the start; a length of 0 or 1 gives an empty payload and consumes
\* 4 bytes whatever follows; a length of 2 or more gives exactly the next
\* `length` bytes and consumes 4 + length bytes.
StdStringContract ==
  (pc = "ret" /\ Succeeded) =>
    /\ file.length = U32At(buf, input)
    /\ file.length <= 1 => (file.data = <<>> /\ result.at = input + 4)
    /\ file.length >= 2 =>
         /\ file.data = SubSeq(buf, input + 5, input + 4 + file.length)
         /\ result.at = input + 4 + file.length

\* A declared length of 1 with bytes following: none of them is consumed.
StdStringLengthOne ==
  /\ pc = "ret" /\ Succeeded
  /\ file.length = 1
  /\ Len(buf) > input + 4
  /\ result.at = input + 4

\* C2: decoding the serialisation of a layout-consistent value succeeds,
\* consumes the whole buffer and returns the value itself.
RoundTrip ==
  (Finished /\ WholeFile) =>
    /\ Succeeded
    /\ result.at = Len(buf)
    /\ file = src.wm

RoundTripFull ==
  /\ Succeeded /\ WholeFile
  /\ file.name.length >= 2
  /\ Len(file.world_chip_data) >= 1
  /\ Len(file.map_chip_data) >= 1
  /\ Len(file.event_data) >= 1
  /\ Len(file.event_data[1].pages) >= 1
  /\ Len(file.event_template_data) >= 1

\* The offsets at which the fields of the whole file start.
Boundaries(w) == LET r == world_map(EncWorldMap(w)).reads IN {r[k].at : k \in 1..Len(r)}

\* C3: a valid buffer cut at a field boundary strictly inside it fails to
\* decode, with the error at the offset of the cut.
TruncationFailsAtCut ==
  ( /\ Finished
    /\ src.kind = "whole" /\ LayoutConsistent(src.wm)
    /\ 0 < src.cut /\ src.cut < src.full
    /\ src.cut \in Boundaries(src.wm) )
  => result = [status |-> "Err", at |-> src.cut]

\* C4: a decode in which some primitive read ran out of bytes never
\* succeeds.
NoSuccessAfterFailedRead ==
  Succeeded => \A k \in 1..Len(reads) : reads[k].ok

\* C5: a returned WorldMap has tiles_types_count chips and tiles_count tile
\* integers.
ListLengthsMatchCounts ==
  Succeeded =>
    /\ Len(file.world_chip_data) = file.tiles_types_count
    /\ Len(file.map_chip_data) = file.tiles_count

\* C6: every EventRecord world_event_base returns has pages_count pages.
PagesMatchPagesCount ==
  /\ \A k \in 1..Len(file.event_data) :
       Len(file.event_data[k].pages) = file.event_data[k].pages_count
  /\ \A k \in 1..Len(file.event_template_data) :
       Len(file.event_template_data[k].pages)
         = file.event_template_data[k].pages_count

\* C7: both event lists are bounded by tiles_count whatever events_count and
\* events_pal_count say; on a whole file each has exactly tiles_count
\* records, none when tiles_count is 0.
EventListsFollowTilesCount ==
  /\ Len(file.event_data) <= file.tiles_count
  /\ Len(file.event_template_data) <= file.tiles_count
  /\ (Succeeded /\ WholeFile) =>
       /\ file.events_count = src.wm.events_count
       /\ file.events_pal_count = src.wm.events_pal_count
       /\ Len(file.event_data) = file.tiles_count
       /\ Len(file.event_template_data) = file.tiles_count

EventsCountIgnored ==
  /\ Succeeded /\ WholeFile
  /\ file.tiles_count = 1
  /\ file.events_count = 0 /\ Len(file.event_data) = 1
  /\ file.events_pal_count = LargeCount /\ Len(file.event_template_data) = 1

\* C8: the read position only moves forward: reads start at non-decreasing
\* offsets, no byte is read twice, and the position stays within the buffer.
ForwardOnly ==
  /\ input <= Len(buf)
  /\ \A k \in 1..(Len(reads) - 1) :
       /\ reads[k].at <= reads[k + 1].at
       /\ reads[k].ok => reads[k].at + reads[k].need <= reads[k + 1].at

\* The list elements decoded so far.
RECURSIVE Pages(_)
Pages(es) == IF es = <<>> THEN 0 ELSE Len(Head(es).pages) + Pages(Tail(es))

Elements(f) ==
  Len(f.world_chip_data) + Len(f.map_chip_data)
    + Len(f.event_data) + Pages(f.event_data)
    + Len(f.event_template_data) + Pages(f.event_template_data)

\* Those of the loop that is running.
InProgress ==
  Len(res) + Len(sub.pages)
    + IF LineIs("many_m_n", "world_event_base") THEN Pages(res) ELSE 0

\* C9: every decode ends, in success or failure, and decodes at most one
\* list element per 4 bytes of the buffer, whatever the declared counts.
TerminatesWithinBuffer ==
  /\ <>Finished
  /\ [](4 * (Elements(file) + InProgress) <= Len(buf))

LargeCountStopped ==
  /\ Finished
  /\ file.tiles_count = LargeCount
  /\ Len(file.map_chip_data) > MaxList
  /\ Len(file.map_chip_data) < LargeCount

\* C10: on success the remainder is a suffix of the input and the consumed
\* prefix is the serialisation of the returned value with the lists as long
\* as they are; bytes after it do not make the decode fail.
ConsumedIsEncoding ==
  /\ Succeeded =>
       /\ result.at <= Len(buf)
       /\ SubSeq(buf, 1, result.at) = EncWorldMap(file)
  /\ (Finished /\ src.kind = "trailing" /\ LayoutConsistent(src.wm)) => Succeeded

AbandonedNotConsumed ==
  /\ Succeeded
  /\ result.at < Len(buf)
  /\ \E k \in 1..Len(reads) : ~reads[k].ok

====
